---- MODULE Spec2Model ----
(***************************************************************************)
(* Model of the outbound-caller agent (agent.py): the entrypoint          *)
(* coroutine, the session-start task it spawns, the _shutdown_tasks        *)
(* callback and the end_call tool of OutboundCaller.  Every await of the   *)
(* source is one step; the outcome of each backend call is chosen          *)
(* nondeterministically among the results the backend can produce.        *)
(***************************************************************************)
EXTENDS Integers, Sequences, FiniteSets, TLC

\* ---- bounds ------------------------------------------------------------
MaxPinLen == 2
MaxEndCalls == 1

\* ---- values ------------------------------------------------------------
None == "None"
CalleeNumber == "+15551234567"
EgressId == "EG_1"
PinAlphabet == {"*", "a"}

SeqsUpTo(S, n) == UNION {[1..k -> S] : k \in 0..n}

\* ctx.job.metadata: absent/empty, not JSON, JSON that is not an object,
\* or a JSON object with or without phone_number / meeting_pin.
JobMetadata ==
    {[kind |-> k, hasPhone |-> FALSE, phone |-> None, hasPin |-> FALSE, pin |-> <<>>] :
        k \in {"absent", "malformed", "nonobject"}}
    \cup
    {[kind |-> "object", hasPhone |-> hp, phone |-> IF hp THEN CalleeNumber ELSE None,
      hasPin |-> TRUE, pin |-> p] : hp \in BOOLEAN, p \in SeqsUpTo(PinAlphabet, MaxPinLen)}
    \cup
    {[kind |-> "object", hasPhone |-> hp, phone |-> IF hp THEN CalleeNumber ELSE None,
      hasPin |-> FALSE, pin |-> <<>>] : hp \in BOOLEAN}

EmptyDict == [hasPhone |-> FALSE, phone |-> None, hasPin |-> FALSE, pin |-> <<>>]

\* dial_info after lines 187-199, for metadata on which they do not raise
DialInfoOf(m) ==
    IF m.kind = "object"
    THEN [hasPhone |-> m.hasPhone, phone |-> m.phone, hasPin |-> m.hasPin, pin |-> m.pin]
    ELSE EmptyDict

\* dial_info.get("phone_number", "unknown")
PhoneNumberOf(d) == IF d.hasPhone THEN d.phone ELSE "unknown"

\* MeetPinOf that never looks at the supplied PIN
MeetPinOf_IgnoresSupplied(d) == <<"0", "0", "0", "0", "#">>

\* f"{dial_info.get('meeting_pin')}" if dial_info.get('meeting_pin') else "0000#"
DefaultPin == <<"0", "0", "0", "0", "#">>
MeetPinOf(d) == IF d.hasPin /\ d.pin # <<>> THEN d.pin ELSE DefaultPin

\* DtmfMap with the codes of * and # exchanged
DtmfMap_Swapped(digit) ==
    CASE digit = "0" -> 0 [] digit = "1" -> 1 [] digit = "2" -> 2
      [] digit = "3" -> 3 [] digit = "4" -> 4 [] digit = "5" -> 5
      [] digit = "6" -> 6 [] digit = "7" -> 7 [] digit = "8" -> 8
      [] digit = "9" -> 9 [] digit = "*" -> 11 [] digit = "#" -> 10
      [] OTHER -> -1

\* dtmf_map.get(digit): the tone code, or None for any other symbol
DtmfMap(digit) ==
    CASE digit = "0" -> 0 [] digit = "1" -> 1 [] digit = "2" -> 2
      [] digit = "3" -> 3 [] digit = "4" -> 4 [] digit = "5" -> 5
      [] digit = "6" -> 6 [] digit = "7" -> 7 [] digit = "8" -> 8
      [] digit = "9" -> 9 [] digit = "*" -> 10 [] digit = "#" -> 11
      [] OTHER -> -1

VARIABLES
    metadata,          \* ctx.job.metadata
    pc,                \* position of the entrypoint coroutine
    result,            \* how the entrypoint ended: running/conversing/dial_failed/exception/crashed
    crashAt,           \* step at which an uncaught exception left the entrypoint
    egressStarts,      \* start_room_composite_egress requests issued
    egress_id,         \* egress_id
    dial_info,         \* dial_info
    phone_number,      \* phone_number = participant_identity
    hookRegistered,    \* ctx.add_shutdown_callback calls
    session_started,   \* the session.start task: none/scheduled/done/failed
    dialRequests,      \* create_sip_participant requests issued (sequence of sip_call_to)
    dialResult,        \* pending/answered/twirp_error/error
    awaitedSession,    \* await session_started returned normally
    participant,       \* agent.participant (identity) or None
    settled,           \* asyncio.sleep(12) after the join has elapsed
    MEET_PIN,          \* GOOGLE_MEET_PIN
    idx,               \* position of the DTMF loop in GOOGLE_MEET_PIN
    inflight,          \* publish_dtmf calls awaiting completion
    tones,             \* tone codes published, in order
    gaps,              \* inter-tone gaps slept
    openingSaid,       \* session.say(opening line) calls
    shutdownRequested, \* job shutdown has been requested: none/external/room_deleted
    hpc,               \* position of _shutdown_tasks
    hookRuns,          \* invocations of _shutdown_tasks
    hist,              \* hist_dict: none/history/placeholder
    ended_at,          \* ended_at stamped
    conn,              \* the aiomysql connection: none/open/closed
    connsOpened,       \* connections established
    rows,              \* rows inserted into interviews
    stopRequests,      \* stop_egress requests issued
    stopResult,        \* outcome of the stop_egress request, none before it
    clientClosed,      \* lkapi.aclose() calls
    hookErrors,        \* exceptions caught inside _shutdown_tasks
    h_identity,        \* participant_identity local of _shutdown_tasks
    ecpc,              \* position of OutboundCaller.end_call
    endCalls,          \* invocations of end_call
    farewell,          \* farewell line of the current end_call: none/speaking/played
    roomDeletes        \* delete_room requests issued

ctl == <<pc, result, crashAt>>
egressVars == <<egressStarts, egress_id>>
cfgVars == <<dial_info, phone_number>>
dialVars == <<dialRequests, dialResult>>
joinVars == <<awaitedSession, participant, settled>>
dtmfVars == <<MEET_PIN, idx, inflight, tones, gaps>>
epVars == <<ctl, egressVars, cfgVars, hookRegistered, dialVars, joinVars, dtmfVars,
            openingSaid>>
hookVars == <<hpc, hookRuns, hist, ended_at, conn, connsOpened, rows, stopRequests,
              clientClosed, hookErrors, h_identity, stopResult>>
ecVars == <<ecpc, endCalls, farewell, roomDeletes>>
others == <<metadata, session_started, shutdownRequested, hookVars, ecVars>>
vars == <<epVars, others>>

Init ==
    /\ metadata \in JobMetadata
    /\ pc = "start_egress"
    /\ result = "running"
    /\ crashAt = None
    /\ egressStarts = 0
    /\ egress_id = None
    /\ dial_info = EmptyDict
    /\ phone_number = None
    /\ hookRegistered = 0
    /\ session_started = "none"
    /\ dialRequests = <<>>
    /\ dialResult = "none"
    /\ awaitedSession = FALSE
    /\ participant = None
    /\ settled = FALSE
    /\ MEET_PIN = <<>>
    /\ idx = 0
    /\ inflight = 0
    /\ tones = <<>>
    /\ gaps = 0
    /\ openingSaid = 0
    /\ shutdownRequested = "none"
    /\ hpc = "idle"
    /\ hookRuns = 0
    /\ hist = "none"
    /\ ended_at = FALSE
    /\ conn = "none"
    /\ connsOpened = 0
    /\ rows = <<>>
    /\ stopRequests = 0
    /\ stopResult = "none"
    /\ clientClosed = 0
    /\ hookErrors = {}
    /\ h_identity = None
    /\ ecpc = "idle"
    /\ endCalls = 0
    /\ farewell = "none"
    /\ roomDeletes = 0

\* ---- entrypoint ---------------------------------------------------------
Goto(l) ==
    /\ pc' = l
    /\ UNCHANGED <<result, crashAt>>

\* An uncaught exception leaves entrypoint (outside lines 379-446).
Crash(step) ==
    /\ pc' = "crashed"
    /\ result' = "crashed"
    /\ crashAt' = step

\* except api.TwirpError / except Exception, lines 438-446: logged, entrypoint returns
Caught(how) ==
    /\ pc' = "returned"
    /\ result' = how
    /\ UNCHANGED crashAt

\* StartEgress without the try/except: the backend's exception leaves entrypoint
StartEgress_Propagates ==
    /\ pc = "start_egress"
    /\ egressStarts' = egressStarts + 1
    /\ \/ egress_id' = EgressId /\ Goto("parse_metadata")
       \/ egress_id' = None /\ Crash("start_egress")
    /\ UNCHANGED <<cfgVars, hookRegistered, dialVars, joinVars, dtmfVars, openingSaid,
                   others>>

\* lines 153-182: the egress request; a failure is logged and execution continues
StartEgress ==
    /\ pc = "start_egress"
    /\ egressStarts' = egressStarts + 1
    /\ \/ egress_id' = EgressId
       \/ egress_id' = None
    /\ Goto("parse_metadata")
    /\ UNCHANGED <<cfgVars, hookRegistered, dialVars, joinVars, dtmfVars, openingSaid,
                   others>>

\* ParseMetadata raising a configuration error when phone_number is missing
ParseMetadata_Strict ==
    /\ pc = "parse_metadata"
    /\ IF metadata.kind = "nonobject" \/ ~DialInfoOf(metadata).hasPhone
       THEN /\ Crash("parse_metadata")
            /\ UNCHANGED cfgVars
       ELSE /\ dial_info' = DialInfoOf(metadata)
            /\ phone_number' = PhoneNumberOf(DialInfoOf(metadata))
            /\ Goto("make_agent")
    /\ UNCHANGED <<egressVars, hookRegistered, dialVars, joinVars, dtmfVars,
                   openingSaid, others>>

\* lines 187-201: json.loads; dial_info.get on a non-object raises AttributeError
ParseMetadata ==
    /\ pc = "parse_metadata"
    /\ IF metadata.kind = "nonobject"
       THEN /\ Crash("parse_metadata")
            /\ UNCHANGED cfgVars
       ELSE /\ dial_info' = DialInfoOf(metadata)
            /\ phone_number' = PhoneNumberOf(DialInfoOf(metadata))
            /\ Goto("make_agent")
    /\ UNCHANGED <<egressVars, hookRegistered, dialVars, joinVars, dtmfVars,
                   openingSaid, others>>

\* lines 204-207
MakeAgent ==
    /\ pc = "make_agent"
    /\ \/ Goto("make_session")
       \/ Crash("make_agent")
    /\ UNCHANGED <<egressVars, cfgVars, hookRegistered, dialVars, joinVars, dtmfVars,
                   openingSaid, others>>

\* lines 210-226
MakeSession ==
    /\ pc = "make_session"
    /\ \/ Goto("register_hook")
       \/ Crash("make_session")
    /\ UNCHANGED <<egressVars, cfgVars, hookRegistered, dialVars, joinVars, dtmfVars,
                   openingSaid, others>>

\* line 361
RegisterHook ==
    /\ pc = "register_hook"
    /\ hookRegistered' = hookRegistered + 1
    /\ Goto("create_task")
    /\ UNCHANGED <<egressVars, cfgVars, dialVars, joinVars, dtmfVars, openingSaid,
                   others>>

\* CreateSessionTask that dials first and leaves session.start for later
CreateSessionTask_Late ==
    /\ pc = "create_task"
    /\ session_started' = "none"
    /\ Goto("dial")
    /\ UNCHANGED <<egressVars, cfgVars, hookRegistered, dialVars, joinVars, dtmfVars,
                   openingSaid, metadata, shutdownRequested, hookVars, ecVars>>

\* lines 366-376: asyncio.create_task(session.start(...))
CreateSessionTask ==
    /\ pc = "create_task"
    /\ session_started' = "scheduled"
    /\ Goto("dial")
    /\ UNCHANGED <<egressVars, cfgVars, hookRegistered, dialVars, joinVars, dtmfVars,
                   openingSaid, metadata, shutdownRequested, hookVars, ecVars>>

\* lines 380-388: the request is sent and the coroutine suspends
IssueDial ==
    /\ pc = "dial"
    /\ dialRequests' = Append(dialRequests, phone_number)
    /\ dialResult' = "pending"
    /\ Goto("dial_wait")
    /\ UNCHANGED <<egressVars, cfgVars, hookRegistered, joinVars, dtmfVars,
                   openingSaid, others>>

\* wait_until_answered=True returned
DialAnswered ==
    /\ pc = "dial_wait"
    /\ dialResult' = "answered"
    /\ dialRequests' = dialRequests
    /\ Goto("await_session")
    /\ UNCHANGED <<egressVars, cfgVars, hookRegistered, joinVars, dtmfVars,
                   openingSaid, others>>

\* DialFailed whose handler sits around the dial alone: the error is logged
\* and the code after the dial still runs
DialFailed_FallsThrough ==
    /\ pc = "dial_wait"
    /\ \E r \in {"twirp_error", "error"} : dialResult' = r
    /\ dialRequests' = dialRequests
    /\ Goto("await_session")
    /\ UNCHANGED <<egressVars, cfgVars, hookRegistered, joinVars, dtmfVars,
                   openingSaid, others>>

\* create_sip_participant raised TwirpError (438) or another exception (445)
DialFailed ==
    /\ pc = "dial_wait"
    /\ \E r \in {"twirp_error", "error"} : dialResult' = r
    /\ dialRequests' = dialRequests
    /\ Caught("dial_failed")
    /\ UNCHANGED <<egressVars, cfgVars, hookRegistered, joinVars, dtmfVars,
                   openingSaid, others>>

\* the session.start task runs only while the entrypoint is suspended or over
Suspended == pc \in {"dial_wait", "await_session", "wait_participant", "settle",
                     "publishing", "gap", "pause", "say", "returned", "crashed"}

SessionTaskFinishes ==
    /\ session_started = "scheduled"
    /\ Suspended
    /\ session_started' \in {"done", "failed"}
    /\ UNCHANGED <<epVars, metadata, shutdownRequested, hookVars, ecVars>>

\* AwaitSessionStarted that does not await the task
AwaitSessionStarted_NoAwait ==
    /\ pc = "await_session"
    /\ Goto("wait_participant")
    /\ UNCHANGED <<awaitedSession, participant, settled>>
    /\ UNCHANGED <<egressVars, cfgVars, hookRegistered, dialVars, dtmfVars,
                   openingSaid, others>>

\* line 391: await session_started re-raises the task's exception
AwaitSessionStarted ==
    /\ pc = "await_session"
    /\ session_started \in {"done", "failed"}
    /\ IF session_started = "done"
       THEN /\ awaitedSession' = TRUE
            /\ Goto("wait_participant")
       ELSE /\ Caught("exception")
            /\ UNCHANGED awaitedSession
    /\ UNCHANGED <<participant, settled>>
    /\ UNCHANGED <<egressVars, cfgVars, hookRegistered, dialVars, dtmfVars,
                   openingSaid, others>>

\* lines 393-398: the participant joined; the PIN is chosen; agent.set_participant
WaitForParticipant ==
    /\ pc = "wait_participant"
    /\ \/ /\ participant' = phone_number
          /\ MEET_PIN' = MeetPinOf(dial_info)
          /\ Goto("settle")
       \/ /\ Caught("exception")
          /\ UNCHANGED <<participant, MEET_PIN>>
    /\ UNCHANGED <<awaitedSession, settled, idx, inflight, tones, gaps>>
    /\ UNCHANGED <<egressVars, cfgVars, hookRegistered, dialVars, openingSaid, others>>

\* line 400: asyncio.sleep(12)
SettleDelay ==
    /\ pc = "settle"
    /\ settled' = TRUE
    /\ idx' = 1
    /\ Goto("dtmf_loop")
    /\ UNCHANGED <<awaitedSession, participant, MEET_PIN, inflight, tones, gaps>>
    /\ UNCHANGED <<egressVars, cfgVars, hookRegistered, dialVars, openingSaid, others>>

\* DtmfNext leaving the loop one symbol early
DtmfNext_OffByOne ==
    /\ pc = "dtmf_loop"
    /\ IF idx >= Len(MEET_PIN)
       THEN /\ Goto("pause")
            /\ UNCHANGED <<idx, inflight>>
       ELSE IF DtmfMap(MEET_PIN[idx]) # -1
            THEN /\ inflight' = inflight + 1
                 /\ Goto("publishing")
                 /\ UNCHANGED idx
            ELSE /\ idx' = idx + 1
                 /\ UNCHANGED <<ctl, inflight>>
    /\ UNCHANGED <<MEET_PIN, tones, gaps>>
    /\ UNCHANGED <<egressVars, cfgVars, hookRegistered, dialVars, joinVars,
                   openingSaid, others>>

\* lines 418-421: next symbol; publish it if the table knows it, else skip it
DtmfNext ==
    /\ pc = "dtmf_loop"
    /\ IF idx > Len(MEET_PIN)
       THEN /\ Goto("pause")
            /\ UNCHANGED <<idx, inflight>>
       ELSE IF DtmfMap(MEET_PIN[idx]) # -1
            THEN /\ inflight' = inflight + 1
                 /\ Goto("publishing")
                 /\ UNCHANGED idx
            ELSE /\ idx' = idx + 1
                 /\ UNCHANGED <<ctl, inflight>>
    /\ UNCHANGED <<MEET_PIN, tones, gaps>>
    /\ UNCHANGED <<egressVars, cfgVars, hookRegistered, dialVars, joinVars,
                   openingSaid, others>>

\* line 421: publish_dtmf completes, or raises
PublishDtmf ==
    /\ pc = "publishing"
    /\ inflight' = inflight - 1
    /\ \/ /\ tones' = Append(tones, DtmfMap(MEET_PIN[idx]))
          /\ Goto("gap")
       \/ /\ Caught("exception")
          /\ UNCHANGED tones
    /\ UNCHANGED <<MEET_PIN, idx, gaps>>
    /\ UNCHANGED <<egressVars, cfgVars, hookRegistered, dialVars, joinVars,
                   openingSaid, others>>

\* line 423: asyncio.sleep(0.5)
ToneGap ==
    /\ pc = "gap"
    /\ gaps' = gaps + 1
    /\ idx' = idx + 1
    /\ Goto("dtmf_loop")
    /\ UNCHANGED <<MEET_PIN, inflight, tones>>
    /\ UNCHANGED <<egressVars, cfgVars, hookRegistered, dialVars, joinVars,
                   openingSaid, others>>

\* line 428: asyncio.sleep(1)
PauseBeforeSay ==
    /\ pc = "pause"
    /\ Goto("say")
    /\ UNCHANGED <<egressVars, cfgVars, hookRegistered, dialVars, joinVars, dtmfVars,
                   openingSaid, others>>

\* lines 430-435: session.say(opening line)
SayOpening ==
    /\ pc = "say"
    /\ \/ /\ openingSaid' = openingSaid + 1
          /\ pc' = "returned"
          /\ result' = "conversing"
          /\ UNCHANGED crashAt
       \/ /\ Caught("exception")
          /\ UNCHANGED openingSaid
    /\ UNCHANGED <<egressVars, cfgVars, hookRegistered, dialVars, joinVars, dtmfVars,
                   others>>

\* the steps the event loop takes on its own once their await is ready
EntrypointStep ==
    \/ StartEgress \/ ParseMetadata \/ MakeAgent \/ MakeSession \/ RegisterHook
    \/ CreateSessionTask \/ IssueDial \/ AwaitSessionStarted \/ SettleDelay
    \/ DtmfNext \/ PublishDtmf \/ ToneGap \/ PauseBeforeSay \/ SayOpening

\* ---- job shutdown and _shutdown_tasks ------------------------------------
\* the worker, or the room going away, asks the job to shut down
JobShutdown ==
    /\ shutdownRequested = "none"
    /\ shutdownRequested' = "external"
    /\ UNCHANGED <<epVars, metadata, session_started, hookVars, ecVars>>

\* lines 245-251: hist_dict and transcript_json, for the outcomes h of
\* session.history.to_dict() and ser of json.dumps(hist_dict)
TranscriptOf(h) == IF h = "ok" THEN "history" ELSE "placeholder"
SerializeRaises(h, ser) == h = "ok" /\ ser = "raises"

\* the framework invokes the callback; lines 242-283 run up to the first await
ShutdownTasksStart ==
    /\ shutdownRequested # "none"
    /\ hookRegistered >= 1
    /\ hpc = "idle"
    /\ hookRuns = 0
    /\ hookRuns' = hookRuns + 1
    /\ \E h \in {"ok", "raises"}, ser \in {"ok", "raises"} :
         /\ hist' = TranscriptOf(h)
         /\ IF SerializeRaises(h, ser)
            THEN /\ hookErrors' = hookErrors \cup {"serialize"}
                 /\ hpc' = "close_client"
                 /\ UNCHANGED <<ended_at, h_identity>>
            ELSE /\ hookErrors' = hookErrors \cup (IF h = "ok" THEN {} ELSE {"history"})
                 /\ ended_at' = TRUE
                 /\ h_identity' = participant
                 /\ hpc' = "connect"
    /\ UNCHANGED <<conn, connsOpened, rows, stopRequests, stopResult, clientClosed>>
    /\ UNCHANGED <<epVars, metadata, session_started, shutdownRequested, ecVars>>

\* ConnectFailed whose return is not covered by the finally that closes the client
ConnectFailed_SkipsFinally(what) ==
    /\ hookErrors' = hookErrors \cup {what}
    /\ hpc' = "done"

\* lines 296-298: except around connect/cursor: log and return (to the finally)
ConnectFailed(what) ==
    /\ hookErrors' = hookErrors \cup {what}
    /\ hpc' = "close_client"

\* lines 287-294: aiomysql.connect
ConnectMySQL ==
    /\ hpc = "connect"
    /\ \/ /\ conn' = "open"
          /\ connsOpened' = connsOpened + 1
          /\ hpc' = "cursor"
          /\ UNCHANGED hookErrors
       \/ /\ ConnectFailed("connect")
          /\ UNCHANGED <<conn, connsOpened>>
    /\ UNCHANGED <<stopResult, hookRuns, hist, ended_at, rows, stopRequests, clientClosed, h_identity>>
    /\ UNCHANGED <<epVars, metadata, session_started, shutdownRequested, ecVars>>

\* line 295: conn.cursor()
OpenCursor ==
    /\ hpc = "cursor"
    /\ \/ /\ hpc' = "insert"
          /\ UNCHANGED hookErrors
       \/ ConnectFailed("cursor")
    /\ UNCHANGED <<stopResult, hookRuns, hist, ended_at, conn, connsOpened, rows, stopRequests,
                   clientClosed, h_identity>>
    /\ UNCHANGED <<epVars, metadata, session_started, shutdownRequested, ecVars>>

\* the row of lines 310-318
TranscriptRow ==
    [participant_identity |-> h_identity, egress_id |-> egress_id,
     ended_at |-> ended_at, transcript |-> hist]

\* InsertRow that executes the statement a second time
InsertRow_Twice ==
    /\ hpc = "insert"
    /\ \/ /\ rows' = Append(Append(rows, TranscriptRow), TranscriptRow)
          /\ UNCHANGED hookErrors
       \/ /\ hookErrors' = hookErrors \cup {"insert"}
          /\ UNCHANGED rows
    /\ hpc' = "release"
    /\ UNCHANGED <<stopResult, hookRuns, hist, ended_at, conn, connsOpened, stopRequests,
                   clientClosed, h_identity>>
    /\ UNCHANGED <<epVars, metadata, session_started, shutdownRequested, ecVars>>

\* lines 301-322: cur.execute(insert_sql, ...); a failure is logged
InsertRow ==
    /\ hpc = "insert"
    /\ \/ /\ rows' = Append(rows, TranscriptRow)
          /\ UNCHANGED hookErrors
       \/ /\ hookErrors' = hookErrors \cup {"insert"}
          /\ UNCHANGED rows
    /\ hpc' = "release"
    /\ UNCHANGED <<stopResult, hookRuns, hist, ended_at, conn, connsOpened, stopRequests,
                   clientClosed, h_identity>>
    /\ UNCHANGED <<epVars, metadata, session_started, shutdownRequested, ecVars>>

\* lines 323-331: finally: cur.close(); conn.close()
ReleaseConn ==
    /\ hpc = "release"
    /\ conn' = "closed"
    /\ hpc' = "stop_egress"
    /\ UNCHANGED <<stopResult, hookRuns, hist, ended_at, connsOpened, rows, stopRequests,
                   clientClosed, hookErrors, h_identity>>
    /\ UNCHANGED <<epVars, metadata, session_started, shutdownRequested, ecVars>>

\* outcomes of stop_egress: success; a TwirpError that line 342 accepts (code
\* failed_precondition, or EGRESS_FAILED or "cannot be stopped" in its
\* message); any other TwirpError; any other exception
StopOutcomes == {"ok", "already_stopped", "twirp_other", "error"}

\* StopErrors whose handlers raise again on an unexpected error, which the
\* except at line 349 then logs
StopErrors_Reraises(r) ==
    CASE r = "ok" -> {}
      [] r = "already_stopped" -> {}
      [] r = "twirp_other" -> {"stop_warning", "stop_reraised"}
      [] OTHER -> {"stop", "stop_reraised"}

\* lines 339-347: what the handlers of stop_egress log for its outcome r;
\* no handler raises, so no outcome leaves the try
StopErrors(r) ==
    CASE r = "ok" -> {}
      [] r = "already_stopped" -> {}
      [] r = "twirp_other" -> {"stop_warning"}
      [] OTHER -> {"stop"}

\* lines 334-347
StopEgress ==
    /\ hpc = "stop_egress"
    /\ IF egress_id # None
       THEN /\ stopRequests' = stopRequests + 1
            /\ \E r \in StopOutcomes :
                 /\ stopResult' = r
                 /\ hookErrors' = hookErrors \cup StopErrors(r)
       ELSE UNCHANGED <<stopRequests, stopResult, hookErrors>>
    /\ hpc' = "close_client"
    /\ UNCHANGED <<hookRuns, hist, ended_at, conn, connsOpened, rows, clientClosed,
                   h_identity>>
    /\ UNCHANGED <<epVars, metadata, session_started, shutdownRequested, ecVars>>

\* lines 352-358: finally: lkapi.aclose(); a failure is logged
CloseClient ==
    /\ hpc = "close_client"
    /\ clientClosed' = clientClosed + 1
    /\ \/ UNCHANGED hookErrors
       \/ hookErrors' = hookErrors \cup {"close"}
    /\ hpc' = "done"
    /\ UNCHANGED <<stopResult, hookRuns, hist, ended_at, conn, connsOpened, rows, stopRequests,
                   h_identity>>
    /\ UNCHANGED <<epVars, metadata, session_started, shutdownRequested, ecVars>>

HookStep ==
    \/ ShutdownTasksStart \/ ConnectMySQL \/ OpenCursor \/ InsertRow \/ ReleaseConn
    \/ StopEgress \/ CloseClient

\* ---- OutboundCaller.end_call ----------------------------------------------
\* lines 133-135: the LLM calls the tool; self.participant.identity raises
\* AttributeError while no participant has been set
EndCallInvoked ==
    /\ session_started = "done"
    /\ ecpc = "idle"
    /\ endCalls < MaxEndCalls
    /\ endCalls' = endCalls + 1
    /\ ecpc' = IF participant = None THEN "idle" ELSE "say"
    /\ farewell' = "none"
    /\ UNCHANGED roomDeletes
    /\ UNCHANGED <<epVars, metadata, session_started, shutdownRequested, hookVars>>

\* EndCallSay that hangs up without wait_for_playout
EndCallSay_NoPlayoutWait ==
    /\ ecpc = "say"
    /\ \/ farewell' = "speaking" /\ ecpc' = "hangup"
       \/ ecpc' = "idle" /\ UNCHANGED farewell
    /\ UNCHANGED <<endCalls, roomDeletes>>
    /\ UNCHANGED <<epVars, metadata, session_started, shutdownRequested, hookVars>>

\* line 137: ctx.session.say(farewell)
EndCallSay ==
    /\ ecpc = "say"
    /\ \/ farewell' = "speaking" /\ ecpc' = "playout"
       \/ ecpc' = "idle" /\ UNCHANGED farewell
    /\ UNCHANGED <<endCalls, roomDeletes>>
    /\ UNCHANGED <<epVars, metadata, session_started, shutdownRequested, hookVars>>

\* line 138: ctx.wait_for_playout()
EndCallPlayout ==
    /\ ecpc = "playout"
    /\ \/ farewell' = "played" /\ ecpc' = "hangup"
       \/ ecpc' = "idle" /\ UNCHANGED farewell
    /\ UNCHANGED <<endCalls, roomDeletes>>
    /\ UNCHANGED <<epVars, metadata, session_started, shutdownRequested, hookVars>>

\* lines 123-130, 140: delete_room; the deleted room shuts the job down
Hangup ==
    /\ ecpc = "hangup"
    /\ roomDeletes' = roomDeletes + 1
    /\ ecpc' = "idle"
    /\ \/ shutdownRequested' = IF shutdownRequested = "none" THEN "room_deleted"
                                ELSE shutdownRequested
       \/ UNCHANGED shutdownRequested
    /\ UNCHANGED <<endCalls, farewell>>
    /\ UNCHANGED <<epVars, metadata, session_started, hookVars>>

EndCallStep == EndCallSay \/ EndCallPlayout \/ Hangup

Next ==
    \/ EntrypointStep
    \/ DialAnswered \/ DialFailed \/ WaitForParticipant
    \/ SessionTaskFinishes
    \/ JobShutdown
    \/ HookStep
    \/ EndCallInvoked \/ EndCallStep

Spec == Init /\ [][Next]_vars

\* The event loop runs every coroutine whose await is ready; the telephony
\* backend answers or refuses a dial.  Nothing obliges the participant to
\* join, the LLM to call end_call, or the worker to shut the job down.
FairSpec ==
    /\ Spec
    /\ WF_vars(EntrypointStep)
    /\ WF_vars(DialAnswered \/ DialFailed)
    /\ WF_vars(SessionTaskFinishes)
    /\ WF_vars(HookStep)
    /\ WF_vars(EndCallStep)

\* ---- properties ---------------------------------------------------------
\* C1: after a dial failure, or an exception caught while awaiting the session
\* task, the participant or the PIN transmission, the shutdown hook eventually
\* runs to completion, exactly once, with no job-shutdown signal needed.
C1_FailureReachesShutdown ==
    (result \in {"dial_failed", "exception"}) ~> (hpc = "done" /\ hookRuns = 1)

\* C2 (as stated): when the hook has finished, exactly one row has been
\* written, on every path through the hook.
C2_ExactlyOneRowOnEveryPath ==
    hpc = "done" => Len(rows) = 1

ArchiveErrors == {"serialize", "connect", "cursor", "insert"}

\* C2 (amended): never more than one row is written; when the hook has
\* finished, exactly one row has been written if serializing, connecting,
\* opening the cursor and inserting all succeeded, and none otherwise; the row
\* holds the placeholder transcript exactly when reading the history failed.
C2_OneRowUnlessArchiveFails ==
    /\ Len(rows) <= 1
    /\ hpc = "done" =>
         Len(rows) = (IF hookErrors \cap ArchiveErrors = {} THEN 1 ELSE 0)
    /\ rows # <<>> =>
         /\ rows[1].ended_at
         /\ rows[1].transcript =
              (IF "history" \in hookErrors THEN "placeholder" ELSE "history")

\* recording start failed, the dial failed and the history could not be read,
\* and the hook still wrote its one row
C2_Witness ==
    /\ hpc = "done"
    /\ Len(rows) = 1
    /\ egress_id = None
    /\ result = "dial_failed"
    /\ "history" \in hookErrors

\* C3: whenever the hook has finished and a recording id had been obtained,
\* the stop-recording request has been issued, whatever failed in the archive.
C3_StopIssuedDespiteArchiveFailure ==
    (hpc = "done" /\ egress_id # None) => stopRequests = 1

NoPhoneNumber(m) ==
    m.kind \in {"absent", "malformed"} \/ (m.kind = "object" /\ ~m.hasPhone)

\* C4 (as stated): with no phone_number in the metadata no backend call is
\* made: no recording start, no session start, no dial.
C4_MissingPhoneStopsBeforeBackend ==
    NoPhoneNumber(metadata) =>
        /\ egressStarts = 0
        /\ session_started = "none"
        /\ dialRequests = <<>>

\* C4 (amended): with no phone_number in the metadata no configuration error
\* is raised: the recording start request has been issued before the metadata
\* is read, the callee number becomes "unknown", and every dial request of
\* the run is issued to "unknown".
C4_MissingPhoneDefaultsToUnknown ==
    NoPhoneNumber(metadata) =>
        /\ crashAt # "parse_metadata"
        /\ pc # "start_egress" => egressStarts = 1
        /\ pc \notin {"start_egress", "parse_metadata"} => phone_number = "unknown"
        /\ \A i \in DOMAIN dialRequests : dialRequests[i] = "unknown"

C4_Witness ==
    /\ NoPhoneNumber(metadata)
    /\ egressStarts = 1
    /\ session_started # "none"
    /\ dialRequests = <<"unknown">>

\* C5: a dial request is issued only after the recording start request and
\* after the session-start task was created; the task has not completed when
\* the dial request is issued; its completion is awaited only once the dial
\* has been answered.
C5_RecordingAndSessionBeforeDial ==
    /\ [](dialRequests # <<>> => (egressStarts = 1 /\ session_started # "none"))
    /\ [][dialRequests' # dialRequests =>
            (session_started = "scheduled" /\ session_started' = "scheduled")]_vars
    /\ []((pc = "await_session" \/ awaitedSession) => dialResult = "answered")

\* the dial has been answered while session.start is still running, and the
\* coordinator now awaits it
C5_Witness ==
    /\ pc = "await_session"
    /\ dialResult = "answered"
    /\ session_started = "scheduled"
    /\ egressStarts = 1

\* C6: a tone is published only after the dial was answered, the
\* session-start task completed, the expected participant joined and the
\* settle delay elapsed; at most one publish_dtmf is in flight.
C6_TonesOnlyAfterJoinAndSettle ==
    /\ (tones # <<>> \/ inflight > 0) =>
          /\ dialResult = "answered"
          /\ session_started = "done"
          /\ awaitedSession
          /\ participant # None
          /\ participant = phone_number
          /\ settled
    /\ inflight \in {0, 1}

C6_Witness ==
    /\ Len(tones) = 1
    /\ inflight = 1

\* C7: once the dial has failed the entrypoint has returned: it has not
\* waited for the participant, published no tone and not spoken the opening
\* line, and never does.
C7_NothingAfterDialFailure ==
    dialResult \in {"twirp_error", "error"} =>
        /\ pc = "returned"
        /\ result = "dial_failed"
        /\ ~awaitedSession
        /\ participant = None
        /\ ~settled
        /\ tones = <<>>
        /\ inflight = 0
        /\ openingSaid = 0

\* the dial failed although the session came up, and the hook has run
C7_Witness ==
    /\ dialResult = "twirp_error"
    /\ session_started = "done"
    /\ hpc = "done"

MetadataAccepted(m) == m.kind # "nonobject"

SetupSteps == {"parse_metadata", "make_agent", "make_session", "register_hook",
               "create_task", "dial"}
AfterDialIssued == {"dial_wait", "await_session", "wait_participant", "settle",
                    "dtmf_loop", "publishing", "gap", "pause", "say", "returned"}

\* C8: when the recording start request raised and the metadata is one the
\* loader accepts, the entrypoint goes on with egress_id None: the failure
\* does not end it, every step up to the dial stays ready to run, and past the
\* dial statement the session-start task has been created and the dial
\* request issued.
C8_RecordingFailureDoesNotStopCall ==
    (egressStarts = 1 /\ egress_id = None /\ MetadataAccepted(metadata)) =>
        /\ crashAt \notin {"start_egress", "parse_metadata"}
        /\ pc \in SetupSteps => ENABLED EntrypointStep
        /\ pc \in AfterDialIssued =>
             (session_started # "none" /\ Len(dialRequests) = 1)

C8_Witness ==
    /\ egressStarts = 1
    /\ egress_id = None
    /\ Len(dialRequests) = 1
    /\ dialResult = "answered"

\* C9: the API client is closed at most once, and it has been closed exactly
\* when the hook has finished: the close is the hook's last action on every
\* path.
C9_ClientClosedOnceAtEnd ==
    /\ clientClosed <= 1
    /\ hpc = "done" <=> clientClosed = 1
    /\ hookRuns = 0 => clientClosed = 0

\* the early return after a failed connect still closed the client
C9_Witness ==
    /\ hpc = "done"
    /\ clientClosed = 1
    /\ "connect" \in hookErrors

\* C10: when the hook has finished, no connection it opened is still open.
C10_ConnectionReleased ==
    hpc = "done" => conn # "open"

\* the tone table as the claim states it: the symbols in the order of their codes
ToneSymbols == <<"0", "1", "2", "3", "4", "5", "6", "7", "8", "9", "*", "#">>

RECURSIVE ExpectedTones(_)
\* the recognized symbols of a PIN, in input order, each as its code
ExpectedTones(p) ==
    IF p = <<>> THEN <<>>
    ELSE (IF \E i \in DOMAIN ToneSymbols : ToneSymbols[i] = Head(p)
          THEN <<(CHOOSE i \in DOMAIN ToneSymbols : ToneSymbols[i] = Head(p)) - 1>>
          ELSE <<>>) \o ExpectedTones(Tail(p))

\* the DTMF loop has processed every symbol of the PIN
PinDone == pc \in {"pause", "say"} \/ result = "conversing"

\* C11: at every point of the DTMF loop the tones transmitted are the codes
\* of the recognized symbols processed so far, in input order, with one gap
\* slept per transmitted tone and none for a skipped symbol; only a
\* recognized symbol is ever published; when the loop ends the tones are the
\* filtered and mapped PIN.
C11_TonesAreFilteredMappedPin ==
    /\ pc \in {"dtmf_loop", "publishing"} =>
          /\ tones = ExpectedTones(SubSeq(MEET_PIN, 1, idx - 1))
          /\ gaps = Len(tones)
    /\ pc = "publishing" =>
          \E i \in DOMAIN ToneSymbols : ToneSymbols[i] = MEET_PIN[idx]
    /\ pc = "gap" =>
          /\ tones = ExpectedTones(SubSeq(MEET_PIN, 1, idx))
          /\ gaps = Len(tones) - 1
    /\ PinDone =>
          /\ tones = ExpectedTones(MEET_PIN)
          /\ gaps = Len(tones)

\* an unrecognized symbol was skipped without a gap and the * after it sent
C11_Witness ==
    /\ PinDone
    /\ MEET_PIN = <<"a", "*">>
    /\ tones = <<10>>
    /\ gaps = 1

\* C12 (as stated): with no meeting_pin the tones are 0,0,0,0,11; with a
\* meeting_pin present they are those of the supplied PIN.
C12_DefaultOnlyWhenAbsent ==
    PinDone =>
        tones = (IF metadata.hasPin THEN ExpectedTones(metadata.pin)
                 ELSE <<0, 0, 0, 0, 11>>)

\* C12 (amended): with no meeting_pin, or an empty one, the tones are
\* 0,0,0,0,11; with a non-empty meeting_pin they are those of the supplied PIN.
C12_DefaultWhenAbsentOrEmpty ==
    PinDone =>
        tones = (IF metadata.hasPin /\ metadata.pin # <<>>
                 THEN ExpectedTones(metadata.pin)
                 ELSE <<0, 0, 0, 0, 11>>)

C12_Witness ==
    /\ PinDone
    /\ metadata.kind = "object"
    /\ ~metadata.hasPin
    /\ tones = <<0, 0, 0, 0, 11>>

\* C13: the opening line is spoken at most once, and only when the dial was
\* answered and every symbol of the PIN has been processed with all its
\* recognized tones transmitted and none in flight; it is never spoken on a
\* path where the dial, the join wait or the PIN transmission failed.
C13_OpeningOnceAfterPin ==
    /\ openingSaid <= 1
    /\ openingSaid = 1 =>
          /\ result = "conversing"
          /\ dialResult = "answered"
          /\ participant # None
          /\ idx = Len(MEET_PIN) + 1
          /\ tones = ExpectedTones(MEET_PIN)
          /\ inflight = 0
    /\ pc \in {"settle", "dtmf_loop", "publishing", "gap", "pause", "say"} =>
          openingSaid = 0
    /\ result \in {"dial_failed", "exception", "crashed"} => openingSaid = 0

C13_Witness ==
    /\ openingSaid = 1
    /\ Len(tones) = 2

\* C14: end_call reaches the delete_room request only with its farewell
\* played out, and a delete_room request is issued only from there: never
\* while the farewell is unspoken or still playing, and never after the say
\* or the playout wait failed.
C14_RoomDeletedAfterFarewell ==
    /\ [](ecpc = "hangup" => farewell = "played")
    /\ [](ecpc = "playout" => farewell = "speaking")
    /\ [][roomDeletes' # roomDeletes =>
            (ecpc = "hangup" /\ farewell = "played" /\ roomDeletes' = roomDeletes + 1)]_vars
    /\ [](roomDeletes <= endCalls)

C14_Witness ==
    /\ roomDeletes = 1
    /\ farewell = "played"
    /\ shutdownRequested = "room_deleted"

\* C15: whenever the entrypoint has ended, by returning or by an uncaught
\* exception, after issuing the recording start request, the shutdown hook
\* has been registered exactly once.
C15_HookRegisteredBeforeExit ==
    (pc \in {"returned", "crashed"} /\ egressStarts = 1) => hookRegistered = 1

\* C16: the metadata lines never raise: no job metadata value ends the
\* entrypoint there, and past them the call parameters are set.
C16_LoaderNeverRaises ==
    /\ crashAt # "parse_metadata"
    /\ pc \notin {"start_egress", "parse_metadata"} => phone_number # None

\* C17: once the hook has started no further tone is published and the
\* opening line is not spoken; the hook is invoked at most once.
C17_HookNotInterleavedWithSetup ==
    /\ [][hpc # "idle" => (tones' = tones /\ openingSaid' = openingSaid)]_vars
    /\ [](hookRuns <= 1)

Tolerated == {"already_stopped"}
StopLogs == {"stop", "stop_warning", "stop_reraised"}

\* C18 (as stated): an already-stopped response is treated as success, and
\* any other backend error is raised again by the stop step.
C18_UnexpectedStopErrorReraised ==
    /\ stopResult \in Tolerated => hookErrors \cap StopLogs = {}
    /\ stopResult \in {"twirp_other", "error"} => "stop_reraised" \in hookErrors

\* C18 (amended): an already-stopped response is treated as success, and any
\* other backend error is logged by the stop step and not raised again: the
\* hook goes on to close the API client.
C18_UnexpectedStopErrorLogged ==
    /\ stopResult \in Tolerated \cup {"ok"} => hookErrors \cap StopLogs = {}
    /\ stopResult = "twirp_other" => hookErrors \cap StopLogs = {"stop_warning"}
    /\ stopResult = "error" => hookErrors \cap StopLogs = {"stop"}
    /\ stopResult # "none" => (stopRequests = 1 /\ hpc \in {"close_client", "done"})
    /\ stopResult = "none" => hookErrors \cap StopLogs = {}

C18_Witness ==
    /\ stopResult = "twirp_other"
    /\ hpc = "done"
    /\ clientClosed = 1

\* C19: when the hook has finished, the stop-recording request has been
\* issued once if a recording id was obtained and not at all otherwise; with
\* no recording id and no participant a row it wrote carries both as null.
C19_StopOnceIffRecordingStarted ==
    hpc = "done" =>
        /\ stopRequests = (IF egress_id # None THEN 1 ELSE 0)
        /\ (rows # <<>> /\ egress_id = None /\ h_identity = None) =>
              (rows[1].egress_id = None /\ rows[1].participant_identity = None)
====
